---- MODULE Spec2Model ----
(***************************************************************************)
(* A model of server.js of cloud-scheduler-button: the HTTP server that    *)
(* pauses (/stop-job) or resumes (/start-job) one Cloud Scheduler job.     *)
(*                                                                         *)
(* Strings are sequences of letters.  A letter is either the separator     *)
(* "/" , "?" , a JSON punctuation mark, or an opaque run of characters     *)
(* holding none of them, so that concatenation is \o and split('/') cuts   *)
(* at the "/" letters.  A JavaScript value that may be undefined is a      *)
(* record [def, s].                                                        *)
(*                                                                         *)
(* Each event-loop callback of the program is one action.  The 'data'      *)
(* callbacks of one response (data += chunk) are folded into the action of *)
(* its 'end' callback: the accumulator is local to the response's closure  *)
(* and nothing else reads it before 'end'.                                 *)
(***************************************************************************)
EXTENDS Integers, Sequences, FiniteSets, TLC

\* ------------------------------------------------------------- bounds
\* Number of inbound requests of a run of Spec.
NReq == 1
\* Largest number of 'data' events (chunks) one upstream response is cut into.
MaxChunks == 2

\* ------------------------------------------------------------- JavaScript values
Undefined == [def |-> FALSE, s |-> <<>>]
Str(s) == [def |-> TRUE, s |-> s]

\* !v for a value that is a string or undefined: "" and undefined are falsy.
Truthy(v) == v.def /\ v.s # <<>>

\* a || b
OrElse(a, b) == IF Truthy(a) THEN a ELSE b

\* `${v}` in a template literal: undefined prints as the word undefined.
Template(v) == IF v.def THEN v.s ELSE <<"undefined">>

\* `${n}` for the status codes the model uses.
NumToString(n) ==
  CASE n = 200 -> <<"200">>
    [] n = 204 -> <<"204">>
    [] n = 403 -> <<"403">>
    [] n = 404 -> <<"404">>
    [] n = 500 -> <<"500">>
    [] n = 503 -> <<"503">>

\* Accumulate with data = chunk in place of data += chunk.
AccumulateMutant(chunks) == IF chunks = <<>> THEN <<>> ELSE chunks[Len(chunks)]

\* let data = ''; res.on('data', (chunk) => data += chunk)
RECURSIVE Accumulate(_)
Accumulate(chunks) ==
  IF chunks = <<>> THEN <<>> ELSE Head(chunks) \o Accumulate(Tail(chunks))

\* Index of the first letter of s equal to sep, 0 when there is none.
IndexOf(s, sep) ==
  IF \E i \in 1..Len(s) : s[i] = sep
  THEN CHOOSE i \in 1..Len(s) : s[i] = sep /\ \A j \in 1..(i - 1) : s[j] # sep
  ELSE 0

\* s.split(sep): the pieces between the separators; ''.split('/') is [''].
RECURSIVE Split(_, _)
Split(s, sep) ==
  LET i == IndexOf(s, sep)
  IN IF i = 0 THEN <<s>>
     ELSE <<SubSeq(s, 1, i - 1)>> \o Split(SubSeq(s, i + 1, Len(s)), sep)

\* array.pop() on a non-empty array: its last element.
Pop(arr) == arr[Len(arr)]

\* url.parse(req.url, true).pathname: the part of the URL before the query.
Pathname(u) ==
  LET i == IndexOf(u, "?") IN IF i = 0 THEN u ELSE SubSeq(u, 1, i - 1)

\* ------------------------------------------------------------- configuration
\* process.env.JOB_NAME and process.env.REGION as the process may find them.
EnvJobNames == {Undefined, Str(<<>>), Str(<<"job1">>)}
EnvRegions == {Undefined, Str(<<>>), Str(<<"europe-west1">>)}

\* ------------------------------------------------------------- inputs
Methods == {"GET", "POST", "PUT"}
Urls == {<<"/">>, <<"/stop-job">>, <<"/start-job">>, <<"/foo">>,
         <<"/stop-job", "?", "x=1">>}

\* Every way to deliver body in at most n non-empty chunks.
RECURSIVE Chunkings(_, _)
Chunkings(body, n) ==
  IF body = <<>> THEN {<<>>}
  ELSE IF n = 0 THEN {}
  ELSE UNION {{<<SubSeq(body, 1, i)>> \o rest :
                 rest \in Chunkings(SubSeq(body, i + 1, Len(body)), n - 1)} :
              i \in 1..Len(body)}

\* An upstream response: status line and body.
Response(code, message, body) ==
  [statusCode |-> code, statusMessage |-> message, body |-> body]
Ok(body) == Response(200, <<"OK">>, body)

\* Non-200 answers of the metadata service, and transport errors.
MetadataFailures == {Response(503, <<"Service Unavailable">>, <<"unavailable">>)}
TransportErrors == {<<"connect ECONNREFUSED">>}

\* Answers of the metadata service for project/project-id.
ProjectAnswers == {Ok(<<"my-project">>), Ok(<<>>)} \cup MetadataFailures
\* Answers of the metadata service for instance/region.
RegionAnswers ==
  {Ok(<<"projects", "/", "123", "/", "regions", "/", "us-central1">>),
   Ok(<<"projects", "/", "123", "/", "regions", "/">>),
   Ok(<<>>)} \cup MetadataFailures
\* Answers of the metadata service for the token path.  The letters
\* access_token, token_type, t1 and Bearer stand for quoted JSON strings.
TokenAnswers ==
  {Ok(<<"{", "access_token", ":", "t1", "}">>),
   Ok(<<"{", "token_type", ":", "Bearer", "}">>),
   Ok(<<"null">>),
   Ok(<<"<html>">>)} \cup MetadataFailures
\* Answers of the scheduler API.
SchedulerAnswers ==
  {Ok(<<"{", "}">>),
   Response(204, <<"No Content">>, <<>>),
   Response(403, <<"Forbidden">>, <<"{\"error\":", "\"permission denied\"}">>)}

\* ------------------------------------------------------------- promises
Resolved(v) == [ok |-> TRUE, value |-> v, message |-> <<>>]
Rejected(msg) == [ok |-> FALSE, value |-> Undefined, message |-> msg]

\* ------------------------------------------------------------- getMetadata
\* GetMetadataEnd without the status check.
GetMetadataEndMutant(statusCode, statusMessage, chunks) ==
  Resolved(Str(Accumulate(chunks)))

\* res.on('end'): resolve(data) on status 200, reject otherwise.
GetMetadataEnd(statusCode, statusMessage, chunks) ==
  IF statusCode = 200
  THEN Resolved(Str(Accumulate(chunks)))
  ELSE Rejected(<<"Error getting metadata: ">> \o NumToString(statusCode)
                  \o <<" - ">> \o statusMessage)

\* GetMetadataError resolving with an empty value where the code rejects.
GetMetadataErrorMutant(message) == Resolved(Str(<<>>))

\* req.on('error')
GetMetadataError(message) == Rejected(<<"Error requesting metadata: ">> \o message)

\* ------------------------------------------------------------- getProjectAndLocation
\* LocationOf with region.split('/')[0] in place of region.split('/').pop().
LocationOfMutant(region) == Str(Head(Split(region.s, "/")))

\* const location = region.split('/').pop()
LocationOf(region) == Str(Pop(Split(region.s, "/")))

\* catch (error) { throw new Error('Error getting project ID and/or location ...' + error.message) }
IdentityError(message) ==
  <<"Error getting project ID and/or location from metadata server: ">> \o message

\* ------------------------------------------------------------- getTokenFromMetadataServer
\* JSON.parse on the texts of the model: null, {}, {"key":"value"}; anything
\* else is a SyntaxError.
JsonNull == [type |-> "null", key |-> "", val |-> ""]
JsonObject(k, v) == [type |-> "object", key |-> k, val |-> v]
JsonParse(text) ==
  IF text = <<"null">> THEN [ok |-> TRUE, value |-> JsonNull, message |-> <<>>]
  ELSE IF text = <<"{", "}">>
    THEN [ok |-> TRUE, value |-> JsonObject("", ""), message |-> <<>>]
  ELSE IF Len(text) = 5 /\ <<text[1], text[3], text[5]>> = <<"{", ":", "}">>
    THEN [ok |-> TRUE, value |-> JsonObject(text[2], text[4]), message |-> <<>>]
  ELSE [ok |-> FALSE, value |-> JsonNull,
        message |-> <<"Unexpected token in JSON at position 0">>]

\* tokenData.access_token: a TypeError on null, undefined when the key is
\* absent, the value otherwise.
AccessTokenOf(tokenData) ==
  IF tokenData.type = "null"
  THEN Rejected(<<"Cannot read properties of null (reading 'access_token')">>)
  ELSE IF tokenData.key = "access_token" THEN Resolved(Str(<<tokenData.val>>))
  ELSE Resolved(Undefined)

\* res.on('end') of the token request.
GetTokenEnd(statusCode, statusMessage, chunks) ==
  IF statusCode = 200
  THEN LET parsed == JsonParse(Accumulate(chunks))
           token == IF parsed.ok THEN AccessTokenOf(parsed.value)
                    ELSE Rejected(parsed.message)
       IN IF token.ok THEN token
          ELSE Rejected(<<"Error parsing token from metadata server: ">> \o token.message)
  ELSE Rejected(<<"Error getting token from metadata server: ">>
                  \o NumToString(statusCode) \o <<" - ">> \o statusMessage)

\* req.on('error') of the token request.
GetTokenError(message) ==
  Rejected(<<"Error requesting token from metadata server: ">> \o message)

\* ------------------------------------------------------------- outbound requests
MetadataGet(path) ==
  [method |-> "GET", hostname |-> "metadata.google.internal",
   path |-> <<"/computeMetadata/v1/">> \o path,
   authorization |-> <<>>, body |-> <<>>]

ProjectLookup == MetadataGet(<<"project", "/", "project-id">>)
RegionLookup == MetadataGet(<<"instance", "/", "region">>)
TokenFetch ==
  MetadataGet(<<"instance", "/", "service-accounts", "/", "default", "/", "token">>)

\* options of the /stop-job handler, and the body written to the request.
StopJobRequest(projectId, location, jobName, authToken) ==
  [method |-> "POST", hostname |-> "cloudscheduler.googleapis.com",
   path |-> <<"/v1/projects/">> \o Template(projectId) \o <<"/locations/">>
              \o Template(location) \o <<"/jobs/">> \o Template(jobName) \o <<":pause">>,
   authorization |-> <<"Bearer ">> \o Template(authToken), body |-> <<"{}">>]

\* options of the /start-job handler, and the body written to the request.
StartJobRequest(projectId, location, jobName, authToken) ==
  [method |-> "POST", hostname |-> "cloudscheduler.googleapis.com",
   path |-> <<"/v1/projects/">> \o Template(projectId) \o <<"/locations/">>
              \o Template(location) \o <<"/jobs/">> \o Template(jobName) \o <<":resume">>,
   authorization |-> <<"Bearer ">> \o Template(authToken), body |-> <<"{}">>]

\* ------------------------------------------------------------- the inbound response
NewResponse ==
  [statusCode |-> 200, contentType |-> "", finished |-> FALSE,
   sentStatus |-> 0, sentBody |-> <<>>, ends |-> 0]

\* res.end(body): the first call sends the status line and the body; a later
\* call sends nothing.
End(res, body) ==
  IF res.finished THEN [res EXCEPT !.ends = @ + 1]
  ELSE [res EXCEPT !.finished = TRUE, !.sentStatus = res.statusCode,
                   !.sentBody = body, !.ends = @ + 1]

\* res.statusCode = code; res.setHeader('Content-Type', 'text/html'); res.end(body)
SendHtml(res, code, body) ==
  End([res EXCEPT !.statusCode = code, !.contentType = "text/html"], body)

\* ------------------------------------------------------------- the request handler
\* Route with the pathname tests of the two control branches dropped.
RouteMutant(method, pathname) ==
  IF pathname = <<"/">> THEN "index"
  ELSE IF method = "POST" THEN "stop"
  ELSE "notfound"

\* The if / else-if chain of the request handler: which branch a request takes.
Route(method, pathname) ==
  IF pathname = <<"/">> THEN "index"
  ELSE IF pathname = <<"/stop-job">> /\ method = "POST" THEN "stop"
  ELSE IF pathname = <<"/start-job">> /\ method = "POST" THEN "start"
  ELSE "notfound"

\* res.statusCode = 404; res.end('Not Found')
NotFound(res) == End([res EXCEPT !.statusCode = 404], <<"Not Found">>)

\* The fs.readFile callback of the root path.
IndexPage(res, err) ==
  IF err THEN End([res EXCEPT !.statusCode = 500], <<"Error loading index.html">>)
  ELSE SendHtml(res, 200, <<"index.html">>)

\* HandlerLocation with the operands of || exchanged.
HandlerLocationMutant(region, defaultLocation) == OrElse(defaultLocation, region)

\* const location = process.env.REGION || defaultLocation
HandlerLocation(region, defaultLocation) == OrElse(region, defaultLocation)

\* StopJobEnd taking every 2xx status for success.
StopJobEndMutant(res, jobName, statusCode, apiData) ==
  IF statusCode < 300
  THEN End([res EXCEPT !.contentType = "text/html"],
           <<"<p>Job ">> \o Template(jobName) \o <<" paused successfully.</p>">>)
  ELSE SendHtml(res, statusCode,
                <<"<p>Error: Failed to pause job. Details: ">> \o apiData \o <<"</p>">>)

\* /stop-job: the apiRes 'end' callback.
StopJobEnd(res, jobName, statusCode, apiData) ==
  IF statusCode = 200
  THEN End([res EXCEPT !.contentType = "text/html"],
           <<"<p>Job ">> \o Template(jobName) \o <<" paused successfully.</p>">>)
  ELSE SendHtml(res, statusCode,
                <<"<p>Error: Failed to pause job. Details: ">> \o apiData \o <<"</p>">>)

\* /stop-job: the apiReq 'error' callback.
StopJobRequestError(res, message) ==
  SendHtml(res, 500, <<"<p>Error: Failed to pause job. Details: ">> \o message \o <<"</p>">>)

\* StopJobCatch without res.statusCode = 500.
StopJobCatchMutant(res, message) ==
  End([res EXCEPT !.contentType = "text/html"],
      <<"<p>Error: Failed to pause job. Details: ">> \o message \o <<"</p>">>)

\* /stop-job: the catch block.
StopJobCatch(res, message) ==
  SendHtml(res, 500, <<"<p>Error: Failed to pause job. Details: ">> \o message \o <<"</p>">>)

\* StartJobEnd answering every upstream status other than 200 with 500.
StartJobEndMutant(res, jobName, statusCode, apiData) ==
  IF statusCode = 200
  THEN End([res EXCEPT !.contentType = "text/html"],
           <<"<p>Job ">> \o Template(jobName) \o <<" started successfully.</p>">>)
  ELSE SendHtml(res, 500,
                <<"<p>Error: Failed to start job. Details: ">> \o apiData \o <<"</p>">>)

\* /start-job: the apiRes 'end' callback.
StartJobEnd(res, jobName, statusCode, apiData) ==
  IF statusCode = 200
  THEN End([res EXCEPT !.contentType = "text/html"],
           <<"<p>Job ">> \o Template(jobName) \o <<" started successfully.</p>">>)
  ELSE SendHtml(res, statusCode,
                <<"<p>Error: Failed to start job. Details: ">> \o apiData \o <<"</p>">>)

\* /start-job: the apiReq 'error' callback.
StartJobRequestError(res, message) ==
  SendHtml(res, 500, <<"<p>Error: Failed to start job. Details: ">> \o message \o <<"</p>">>)

\* StartJobCatch without res.statusCode = 500.
StartJobCatchMutant(res, message) ==
  End([res EXCEPT !.contentType = "text/html"],
      <<"<p>Error: Failed to start job. Details: ">> \o message \o <<"</p>">>)

\* /start-job: the catch block.
StartJobCatch(res, message) ==
  SendHtml(res, 500, <<"<p>Error: Failed to start job. Details: ">> \o message \o <<"</p>">>)

\* ------------------------------------------------------------- state
VARIABLES
  env,        \* process.env: JOB_NAME and REGION
  proc,       \* "starting", "serving" (listening) or "exited" (start-up threw)
  pc,         \* per request: the await or callback the handler is suspended at
  req,        \* per request: method and url
  projectId,  \* per request: the handler's projectId
  location,   \* per request: the handler's location
  authToken,  \* per request: the handler's authToken
  calls,      \* per request: the outbound requests issued so far, in order
  res,        \* per request: the inbound response
  got         \* per request: what each outbound request was answered with

vars == <<env, proc, pc, req, projectId, location, authToken, calls, res, got>>

Reqs == 1..NReq

\* const jobName = process.env.JOB_NAME
jobName == env.JOB_NAME

\* What an outbound request was answered with.
NoAnswer == [kind |-> "none", statusCode |-> 0, body |-> <<>>]
Answer(statusCode, body) == [kind |-> "response", statusCode |-> statusCode, body |-> body]
Failure(message) == [kind |-> "error", statusCode |-> 0, body |-> message]

NoRequest == [method |-> "", url |-> <<>>]

\* The branch request r took.
RouteOf(r) == Route(req[r].method, Pathname(req[r].url))

Init ==
  /\ env \in [JOB_NAME : EnvJobNames, REGION : EnvRegions]
  /\ proc = "starting"
  /\ pc = [r \in Reqs |-> "new"]
  /\ req = [r \in Reqs |-> NoRequest]
  /\ projectId = [r \in Reqs |-> Undefined]
  /\ location = [r \in Reqs |-> Undefined]
  /\ authToken = [r \in Reqs |-> Undefined]
  /\ calls = [r \in Reqs |-> <<>>]
  /\ res = [r \in Reqs |-> NewResponse]
  /\ got = [r \in Reqs |->
              [project |-> NoAnswer, region |-> NoAnswer, token |-> NoAnswer,
               scheduler |-> NoAnswer]]

\* if (!jobName) throw ...
JobNameMissing(name) == ~Truthy(name)

\* Module start-up: the JOB_NAME check, then server.listen.
Start ==
  /\ proc = "starting"
  /\ proc' = IF JobNameMissing(jobName) THEN "exited" ELSE "serving"
  /\ UNCHANGED <<env, pc, req, projectId, location, authToken, calls, res, got>>

\* The catch block of the handler request r runs in.
Catch(r, message) ==
  IF RouteOf(r) = "stop" THEN StopJobCatch(res[r], message)
  ELSE StartJobCatch(res[r], message)

\* A request arrives: the handler runs up to its first suspension.
Receive(r, method, url) ==
  /\ proc = "serving"
  /\ pc[r] = "new"
  /\ req' = [req EXCEPT ![r] = [method |-> method, url |-> url]]
  /\ LET route == Route(method, Pathname(url))
     IN CASE route = "index" ->
               /\ pc' = [pc EXCEPT ![r] = "readFile"]
               /\ UNCHANGED <<calls, res>>
          [] route \in {"stop", "start"} ->
               /\ calls' = [calls EXCEPT ![r] = Append(@, ProjectLookup)]
               /\ pc' = [pc EXCEPT ![r] = "project"]
               /\ UNCHANGED res
          [] OTHER ->
               /\ res' = [res EXCEPT ![r] = NotFound(@)]
               /\ pc' = [pc EXCEPT ![r] = "done"]
               /\ UNCHANGED calls
  /\ UNCHANGED <<env, proc, projectId, location, authToken, got>>

\* fs.readFile calls back.
ReadFileCallback(r, err) ==
  /\ pc[r] = "readFile"
  /\ res' = [res EXCEPT ![r] = IndexPage(@, err)]
  /\ pc' = [pc EXCEPT ![r] = "done"]
  /\ UNCHANGED <<env, proc, req, projectId, location, authToken, calls, got>>

\* Fail with a catch block that logs the error and sends nothing.
FailMutant(r, message) ==
  /\ res' = res
  /\ pc' = [pc EXCEPT ![r] = "done"]

\* A rejected await inside the handler's try: the catch block answers.
Fail(r, message) ==
  /\ res' = [res EXCEPT ![r] = Catch(r, message)]
  /\ pc' = [pc EXCEPT ![r] = "done"]

\* getMetadata('project/project-id') settles; on success the region lookup is issued.
ProjectSettled(r, result) ==
  IF result.ok
  THEN /\ projectId' = [projectId EXCEPT ![r] = result.value]
       /\ calls' = [calls EXCEPT ![r] = Append(@, RegionLookup)]
       /\ pc' = [pc EXCEPT ![r] = "region"]
       /\ UNCHANGED res
  ELSE /\ Fail(r, IdentityError(result.message))
       /\ UNCHANGED <<projectId, calls>>

ProjectEnd(r, answer, chunks) ==
  /\ pc[r] = "project"
  /\ got' = [got EXCEPT ![r].project = Answer(answer.statusCode, answer.body)]
  /\ ProjectSettled(r, GetMetadataEnd(answer.statusCode, answer.statusMessage, chunks))
  /\ UNCHANGED <<env, proc, req, location, authToken>>

ProjectError(r, message) ==
  /\ pc[r] = "project"
  /\ got' = [got EXCEPT ![r].project = Failure(message)]
  /\ ProjectSettled(r, GetMetadataError(message))
  /\ UNCHANGED <<env, proc, req, location, authToken>>

\* getMetadata('instance/region') settles; on success getProjectAndLocation
\* returns, the handler picks its location and the token fetch is issued.
RegionSettled(r, result) ==
  IF result.ok
  THEN /\ location' = [location EXCEPT ![r] =
                         HandlerLocation(env.REGION, LocationOf(result.value))]
       /\ calls' = [calls EXCEPT ![r] = Append(@, TokenFetch)]
       /\ pc' = [pc EXCEPT ![r] = "token"]
       /\ UNCHANGED res
  ELSE /\ Fail(r, IdentityError(result.message))
       /\ UNCHANGED <<location, calls>>

RegionEnd(r, answer, chunks) ==
  /\ pc[r] = "region"
  /\ got' = [got EXCEPT ![r].region = Answer(answer.statusCode, answer.body)]
  /\ RegionSettled(r, GetMetadataEnd(answer.statusCode, answer.statusMessage, chunks))
  /\ UNCHANGED <<env, proc, req, projectId, authToken>>

RegionError(r, message) ==
  /\ pc[r] = "region"
  /\ got' = [got EXCEPT ![r].region = Failure(message)]
  /\ RegionSettled(r, GetMetadataError(message))
  /\ UNCHANGED <<env, proc, req, projectId, authToken>>

\* SchedulerRequest with a token kept from the first fetch of any request.
SchedulerRequestCachedToken(r, token) ==
  LET cached == IF \E q \in DOMAIN pc : authToken[q].def
                THEN authToken[CHOOSE q \in DOMAIN pc : authToken[q].def]
                ELSE token
  IN IF RouteOf(r) = "stop"
     THEN StopJobRequest(projectId[r], location[r], jobName, cached)
     ELSE StartJobRequest(projectId[r], location[r], jobName, cached)

\* SchedulerRequest with the action kept in a variable all requests share:
\* the action of the lowest-numbered request received.
SchedulerRequestSharedAction(r, token) ==
  LET first == CHOOSE q \in DOMAIN pc :
                 pc[q] # "new" /\ \A p \in DOMAIN pc : pc[p] # "new" => q <= p
  IN IF RouteOf(first) = "stop"
     THEN StopJobRequest(projectId[r], location[r], jobName, token)
     ELSE StartJobRequest(projectId[r], location[r], jobName, token)

\* The scheduler request of the handler request r runs in.
SchedulerRequest(r, token) ==
  IF RouteOf(r) = "stop" THEN StopJobRequest(projectId[r], location[r], jobName, token)
  ELSE StartJobRequest(projectId[r], location[r], jobName, token)

\* TokenSettled with the token fetch in a try of its own whose catch answers
\* and falls through to the scheduler request.
TokenSettledMutant(r, result) ==
  IF result.ok
  THEN /\ authToken' = [authToken EXCEPT ![r] = result.value]
       /\ calls' = [calls EXCEPT ![r] = Append(@, SchedulerRequest(r, result.value))]
       /\ pc' = [pc EXCEPT ![r] = "scheduler"]
       /\ UNCHANGED res
  ELSE /\ res' = [res EXCEPT ![r] = Catch(r, result.message)]
       /\ calls' = [calls EXCEPT ![r] = Append(@, SchedulerRequest(r, Undefined))]
       /\ pc' = [pc EXCEPT ![r] = "scheduler"]
       /\ UNCHANGED authToken

\* getTokenFromMetadataServer settles; on success the scheduler request is sent.
TokenSettled(r, result) ==
  IF result.ok
  THEN /\ authToken' = [authToken EXCEPT ![r] = result.value]
       /\ calls' = [calls EXCEPT ![r] = Append(@, SchedulerRequest(r, result.value))]
       /\ pc' = [pc EXCEPT ![r] = "scheduler"]
       /\ UNCHANGED res
  ELSE /\ Fail(r, result.message)
       /\ UNCHANGED <<authToken, calls>>

TokenEnd(r, answer, chunks) ==
  /\ pc[r] = "token"
  /\ got' = [got EXCEPT ![r].token = Answer(answer.statusCode, answer.body)]
  /\ TokenSettled(r, GetTokenEnd(answer.statusCode, answer.statusMessage, chunks))
  /\ UNCHANGED <<env, proc, req, projectId, location>>

TokenError(r, message) ==
  /\ pc[r] = "token"
  /\ got' = [got EXCEPT ![r].token = Failure(message)]
  /\ TokenSettled(r, GetTokenError(message))
  /\ UNCHANGED <<env, proc, req, projectId, location>>

\* The scheduler's response ends: the apiRes 'end' callback answers.
SchedulerEnd(r, answer, chunks) ==
  /\ pc[r] = "scheduler"
  /\ got' = [got EXCEPT ![r].scheduler = Answer(answer.statusCode, answer.body)]
  /\ res' = [res EXCEPT ![r] =
               IF RouteOf(r) = "stop"
               THEN StopJobEnd(@, jobName, answer.statusCode, Accumulate(chunks))
               ELSE StartJobEnd(@, jobName, answer.statusCode, Accumulate(chunks))]
  /\ pc' = [pc EXCEPT ![r] = "done"]
  /\ UNCHANGED <<env, proc, req, projectId, location, authToken, calls>>

\* The scheduler request fails in transport: the apiReq 'error' callback answers.
SchedulerError(r, message) ==
  /\ pc[r] = "scheduler"
  /\ got' = [got EXCEPT ![r].scheduler = Failure(message)]
  /\ res' = [res EXCEPT ![r] =
               IF RouteOf(r) = "stop" THEN StopJobRequestError(@, message)
               ELSE StartJobRequestError(@, message)]
  /\ pc' = [pc EXCEPT ![r] = "done"]
  /\ UNCHANGED <<env, proc, req, projectId, location, authToken, calls>>

\* An answer together with one way to cut its body into 'data' events.
Deliveries(answers) ==
  UNION {{[answer |-> a, chunks |-> cs] : cs \in Chunkings(a.body, MaxChunks)} :
         a \in answers}
ProjectDeliveries == Deliveries(ProjectAnswers)
RegionDeliveries == Deliveries(RegionAnswers)
TokenDeliveries == Deliveries(TokenAnswers)
SchedulerDeliveries == Deliveries(SchedulerAnswers)

Next ==
  \/ Start
  \/ \E r \in DOMAIN pc, m \in Methods, u \in Urls : Receive(r, m, u)
  \/ \E r \in DOMAIN pc, err \in BOOLEAN : ReadFileCallback(r, err)
  \/ \E r \in DOMAIN pc, d \in ProjectDeliveries : ProjectEnd(r, d.answer, d.chunks)
  \/ \E r \in DOMAIN pc, e \in TransportErrors : ProjectError(r, e)
  \/ \E r \in DOMAIN pc, d \in RegionDeliveries : RegionEnd(r, d.answer, d.chunks)
  \/ \E r \in DOMAIN pc, e \in TransportErrors : RegionError(r, e)
  \/ \E r \in DOMAIN pc, d \in TokenDeliveries : TokenEnd(r, d.answer, d.chunks)
  \/ \E r \in DOMAIN pc, e \in TransportErrors : TokenError(r, e)
  \/ \E r \in DOMAIN pc, d \in SchedulerDeliveries :
        SchedulerEnd(r, d.answer, d.chunks)
  \/ \E r \in DOMAIN pc, e \in TransportErrors : SchedulerError(r, e)

Spec == Init /\ [][Next]_vars

\* ------------------------------------------------------------- vocabulary of the properties
\* t occurs in s as a contiguous run of letters.
Contains(s, t) ==
  \E i \in 0..(Len(s) - Len(t)) : SubSeq(s, i + 1, i + Len(t)) = t

\* The letters of s after its last "/" (all of s when it holds none).
TrailingSegment(s) ==
  LET slashes == {i \in 1..Len(s) : s[i] = "/"}
      last == IF slashes = {} THEN 0
              ELSE CHOOSE i \in slashes : \A j \in slashes : j <= i
  IN SubSeq(s, last + 1, Len(s))

\* The path of a URL is one of the three the interface defines.
KnownPath(u) ==
  \E p \in {"/", "/stop-job", "/start-job"} :
    u = <<p>> \/ (Len(u) > 1 /\ u[1] = p /\ u[2] = "?")

Received(r) == pc[r] # "new"
IsStop(r) == Received(r) /\ req[r].method = "POST" /\ req[r].url[1] = "/stop-job"
IsStart(r) == Received(r) /\ req[r].method = "POST" /\ req[r].url[1] = "/start-job"
IsControl(r) == IsStop(r) \/ IsStart(r)

\* The stage an outbound request belongs to: 1 identity, 2 token, 3 scheduler.
StageOf(c) ==
  IF c.hostname = "cloudscheduler.googleapis.com" THEN 3
  ELSE IF c.path[Len(c.path)] = "token" THEN 2
  ELSE 1
CallsOfStage(r, n) == SelectSeq(calls[r], LAMBDA c : StageOf(c) = n)

\* An answer as the environment gave it: a 200, any other status, no answer at all.
Succeeded(a) == a.kind = "response" /\ a.statusCode = 200
BadStatus(a) == a.kind = "response" /\ a.statusCode # 200
Errored(a) == a.kind = "error"

\* A body is one of the JSON texts: null or an object.
IsJson(b) == b = <<"null">> \/ (Len(b) >= 2 /\ b[1] = "{" /\ b[Len(b)] = "}")

\* Identity resolution, token acquisition failed, going by the answers alone.
IdentityFailed(r) ==
  \/ Errored(got[r].project) \/ BadStatus(got[r].project)
  \/ Errored(got[r].region) \/ BadStatus(got[r].region)
IdentitySucceeded(r) == Succeeded(got[r].project) /\ Succeeded(got[r].region)
TokenFailed(r) ==
  \/ Errored(got[r].token) \/ BadStatus(got[r].token)
  \/ (Succeeded(got[r].token) /\ ~IsJson(got[r].token.body))

\* The response sent for r.
Sent(r, code) == res[r].finished /\ res[r].sentStatus = code
SentSuccess(r) ==
  /\ Sent(r, 200)
  /\ Contains(res[r].sentBody, env.JOB_NAME.s)
  /\ res[r].sentBody[Len(res[r].sentBody)] \in
       {" paused successfully.</p>", " started successfully.</p>"}

\* REGION is set: defined and not the empty string.
RegionSet == env.REGION.def /\ env.REGION.s # <<>>

\* ------------------------------------------------------------- C1
\* C1: within one control request the outbound calls are issued in the order
\* identity, token, scheduler, with one token fetch and one scheduler call at
\* most, and the response is sent with no call outstanding or to come; the
\* token fetch is issued only after both identity lookups succeeded, never
\* after one failed, and the scheduler call only after identity resolution
\* and the token fetch succeeded.
Answered(r) ==
  Cardinality({k \in {"project", "region", "token", "scheduler"} :
                 got[r][k].kind # "none"})
StagesInOrder(r) ==
  /\ \A i, j \in 1..Len(calls[r]) : i < j => StageOf(calls[r][i]) <= StageOf(calls[r][j])
  /\ Len(CallsOfStage(r, 2)) <= 1
  /\ Len(CallsOfStage(r, 3)) <= 1
  /\ CallsOfStage(r, 2) # <<>> => IdentitySucceeded(r) /\ ~IdentityFailed(r)
  /\ CallsOfStage(r, 3) # <<>> =>
       /\ CallsOfStage(r, 2) # <<>>
       /\ Succeeded(got[r].token) /\ ~TokenFailed(r)
  /\ IdentityFailed(r) \/ TokenFailed(r) => CallsOfStage(r, 3) = <<>> /\ Sent(r, 500)
  /\ Len(calls[r]) - 1 <= Answered(r) /\ Answered(r) <= Len(calls[r])
  /\ res[r].finished => Answered(r) = Len(calls[r])
C1_StagesInOrder == \A r \in Reqs : StagesInOrder(r)
\* A request whose token fetch failed after identity resolution succeeded.
C1_Witness ==
  \E r \in Reqs : IsControl(r) /\ IdentitySucceeded(r) /\ TokenFailed(r) /\ Sent(r, 500)

\* ------------------------------------------------------------- C2
\* C2: a scheduler response with a status other than 200 is answered with that
\* status and a message holding the upstream body unmodified.
C2_UpstreamStatusForwarded ==
  \A r \in Reqs :
    BadStatus(got[r].scheduler) =>
      /\ Sent(r, got[r].scheduler.statusCode)
      /\ Contains(res[r].sentBody, got[r].scheduler.body)
\* The scheduler answered 403 with the permission-denied body.
C2_Witness ==
  \E r \in Reqs :
    /\ got[r].scheduler.kind = "response" /\ got[r].scheduler.statusCode = 403
    /\ got[r].scheduler.body # <<>>
    /\ res[r].finished

\* ------------------------------------------------------------- C3
\* C3: the 200 success message naming the job is sent exactly when the
\* scheduler call of the same request ended with status 200; a control
\* request is answered 200 in no other case.
C3_SuccessIffUpstream200 ==
  \A r \in Reqs :
    /\ SentSuccess(r) <=> Succeeded(got[r].scheduler)
    /\ IsControl(r) /\ Sent(r, 200) => Succeeded(got[r].scheduler)
\* A success was sent, for a job name that is not empty.
C3_Witness ==
  \E r \in Reqs : SentSuccess(r) /\ env.JOB_NAME.s # <<>> /\ IsStop(r)

\* ------------------------------------------------------------- C4
\* C4: a failed metadata lookup (bad status or transport error), a token
\* response that cannot be parsed and a scheduler transport error are each
\* answered with status 500 and a message holding the failure's description.
Described(r, a) ==
  /\ Errored(a) => Contains(res[r].sentBody, a.body)
  /\ BadStatus(a) => Contains(res[r].sentBody, NumToString(a.statusCode))
FailedAnswers(r) ==
  {a \in {got[r].project, got[r].region, got[r].token} : Errored(a) \/ BadStatus(a)}
    \cup {a \in {got[r].scheduler} : Errored(a)}
C4_FailureAnswered500 ==
  \A r \in Reqs :
    /\ \A a \in FailedAnswers(r) : Sent(r, 500) /\ Described(r, a)
    /\ Succeeded(got[r].token) /\ ~IsJson(got[r].token.body) =>
         /\ Sent(r, 500)
         /\ Contains(res[r].sentBody, <<"Error parsing token from metadata server: ">>)
\* Each kind of failure happens.
C4_Witness ==
  \E r \in Reqs :
    /\ IsStop(r)
    /\ Succeeded(got[r].token) /\ ~IsJson(got[r].token.body)
    /\ res[r].finished
C4_WitnessTransport ==
  \E r \in Reqs : Errored(got[r].scheduler) /\ res[r].finished

\* ------------------------------------------------------------- C5
\* C5: a token response with status 200 whose body parses but holds no
\* access-token field ends the request with a 500, and no scheduler call is
\* issued.
LacksAccessToken(b) == IsJson(b) /\ ~Contains(b, <<"access_token">>)
C5_MissingTokenFieldFails ==
  \A r \in Reqs :
    Succeeded(got[r].token) /\ LacksAccessToken(got[r].token.body) =>
      CallsOfStage(r, 3) = <<>> /\ Sent(r, 500)

\* ------------------------------------------------------------- C6
\* C6: the location in the scheduler URL is REGION when REGION is set, and the
\* trailing segment of the region descriptor when it is not, for /stop-job
\* and /start-job alike.
ExpectedLocation(r) ==
  IF RegionSet THEN env.REGION.s ELSE TrailingSegment(got[r].region.body)
C6_RegionOverride ==
  \A r \in Reqs :
    \A i \in 1..Len(calls[r]) :
      StageOf(calls[r][i]) = 3 =>
        /\ location[r] = Str(ExpectedLocation(r))
        /\ Contains(calls[r][i].path,
                    <<"/locations/">> \o ExpectedLocation(r) \o <<"/jobs/">>)
\* REGION is set, the metadata service names another region, and the
\* scheduler call is out, for one route and for the other.
C6_Witness ==
  \E r \in Reqs :
    /\ RegionSet /\ IsStart(r)
    /\ TrailingSegment(got[r].region.body) = <<"us-central1">>
    /\ CallsOfStage(r, 3) # <<>>
C6_WitnessUnset ==
  \E r \in Reqs :
    /\ ~RegionSet /\ IsStop(r)
    /\ TrailingSegment(got[r].region.body) = <<"us-central1">>
    /\ CallsOfStage(r, 3) # <<>>

\* ------------------------------------------------------------- C7
\* C7: a /stop-job request answered with the success message has issued
\* exactly one scheduler request: a POST to
\* /v1/projects/{projectId}/locations/{location}/jobs/{JOB_NAME}:pause with
\* the project its own lookup returned and the resolved or overridden region.
ExpectedPausePath(r) ==
  <<"/v1/projects/">> \o got[r].project.body \o <<"/locations/">>
    \o ExpectedLocation(r) \o <<"/jobs/">> \o env.JOB_NAME.s \o <<":pause">>
C7_OnePauseRequest ==
  \A r \in Reqs :
    IsStop(r) /\ SentSuccess(r) =>
      /\ Len(CallsOfStage(r, 3)) = 1
      /\ CallsOfStage(r, 3)[1].method = "POST"
      /\ CallsOfStage(r, 3)[1].path = ExpectedPausePath(r)
      /\ \A i \in 1..Len(calls[r]) : ~Contains(calls[r][i].path, <<":resume">>)
\* A successful /stop-job whose region came from the metadata service.
C7_Witness ==
  \E r \in Reqs :
    /\ IsStop(r) /\ SentSuccess(r) /\ ~RegionSet
    /\ got[r].region.body = <<"projects", "/", "123", "/", "regions", "/", "us-central1">>

\* ------------------------------------------------------------- C8
\* C8: the region descriptor projects/123/regions/us-central1 yields the
\* location us-central1, and an empty descriptor or one ending in "/" makes
\* identity resolution fail: no token is fetched and the request ends in 500.
Malformed(b) == b = <<>> \/ b[Len(b)] = "/"
C8_RegionExtraction ==
  \A r \in Reqs :
    Succeeded(got[r].region) =>
      IF Malformed(got[r].region.body)
      THEN CallsOfStage(r, 2) = <<>> /\ Sent(r, 500)
      ELSE ~RegionSet => location[r] = Str(TrailingSegment(got[r].region.body))

\* ------------------------------------------------------------- C9
\* C9: whenever a scheduler call is issued, the projectId, location and
\* jobName of its URL are all non-empty.
C9_IdentityNonEmpty ==
  \A r \in Reqs :
    CallsOfStage(r, 3) # <<>> =>
      /\ projectId[r].def /\ projectId[r].s # <<>>
      /\ location[r].def /\ location[r].s # <<>>
      /\ jobName.def /\ jobName.s # <<>>

\* ------------------------------------------------------------- C10
\* C10: a request whose path is none of /, /stop-job and /start-job is
\* answered 404 whatever its method, and issues no outbound call.
C10_UnknownPath404 ==
  \A r \in Reqs :
    Received(r) /\ ~KnownPath(req[r].url) => Sent(r, 404) /\ calls[r] = <<>>
\* /foo was requested with a method other than GET.
C10_Witness ==
  \E r \in Reqs : Received(r) /\ req[r].url = <<"/foo">> /\ req[r].method = "POST"

\* ------------------------------------------------------------- C11
\* C11: a request to a known path with a method other than the one the
\* interface defines for it (GET for /, POST for /stop-job and /start-job)
\* is answered 404.
DefinedMethod(u) == IF u[1] = "/" THEN "GET" ELSE "POST"
C11_WrongMethod404 ==
  \A r \in Reqs :
    /\ Received(r) /\ KnownPath(req[r].url)
    /\ req[r].method # DefinedMethod(req[r].url)
    /\ pc[r] = "done"
    => Sent(r, 404)

\* ------------------------------------------------------------- concurrent requests
\* SpecConc: NConc requests in flight at once, any interleaving of their
\* callbacks, with fewer answers per outbound call than Spec and two tokens.
NConc == 2
ConcReqs == 1..NConc

ConcRequests == {[method |-> "POST", url |-> <<"/stop-job">>],
                 [method |-> "POST", url |-> <<"/start-job">>],
                 [method |-> "GET", url |-> <<"/">>]}
ConcProjectAnswers == {Ok(<<"my-project">>)}
ConcRegionAnswers ==
  {Ok(<<"projects", "/", "123", "/", "regions", "/", "us-central1">>)}
    \cup MetadataFailures
ConcTokenAnswers ==
  {Ok(<<"{", "access_token", ":", "t1", "}">>),
   Ok(<<"{", "access_token", ":", "t2", "}">>),
   Ok(<<"<html>">>)}
ConcSchedulerAnswers ==
  {Ok(<<"{", "}">>),
   Response(403, <<"Forbidden">>, <<"{\"error\":", "\"permission denied\"}">>)}

\* A body delivered in one 'data' event (none when it is empty).
Whole(body) == IF body = <<>> THEN <<>> ELSE <<body>>

InitConc ==
  /\ env \in [JOB_NAME : {Str(<<"job1">>)},
              REGION : {Undefined, Str(<<"europe-west1">>)}]
  /\ proc = "starting"
  /\ pc = [r \in ConcReqs |-> "new"]
  /\ req = [r \in ConcReqs |-> NoRequest]
  /\ projectId = [r \in ConcReqs |-> Undefined]
  /\ location = [r \in ConcReqs |-> Undefined]
  /\ authToken = [r \in ConcReqs |-> Undefined]
  /\ calls = [r \in ConcReqs |-> <<>>]
  /\ res = [r \in ConcReqs |-> NewResponse]
  /\ got = [r \in ConcReqs |->
              [project |-> NoAnswer, region |-> NoAnswer, token |-> NoAnswer,
               scheduler |-> NoAnswer]]

\* ConcAnswer for outbound calls that block the process: an answer is taken
\* only when no request received with a lower number is still waiting.
ConcAnswerBlocking(r) ==
  /\ \A q \in DOMAIN pc : q < r => pc[q] \in {"new", "done"}
  /\ \/ \E a \in ConcProjectAnswers : ProjectEnd(r, a, Whole(a.body))
     \/ \E e \in TransportErrors : ProjectError(r, e)
     \/ \E a \in ConcRegionAnswers : RegionEnd(r, a, Whole(a.body))
     \/ \E a \in ConcTokenAnswers : TokenEnd(r, a, Whole(a.body))
     \/ \E a \in ConcSchedulerAnswers : SchedulerEnd(r, a, Whole(a.body))
     \/ \E e \in TransportErrors : SchedulerError(r, e)

\* The callbacks that answer an outbound call of request r.
ConcAnswer(r) ==
  \/ \E a \in ConcProjectAnswers : ProjectEnd(r, a, Whole(a.body))
  \/ \E e \in TransportErrors : ProjectError(r, e)
  \/ \E a \in ConcRegionAnswers : RegionEnd(r, a, Whole(a.body))
  \/ \E a \in ConcTokenAnswers : TokenEnd(r, a, Whole(a.body))
  \/ \E a \in ConcSchedulerAnswers : SchedulerEnd(r, a, Whole(a.body))
  \/ \E e \in TransportErrors : SchedulerError(r, e)

NextConc ==
  \/ Start
  \/ \E r \in DOMAIN pc, q \in ConcRequests : Receive(r, q.method, q.url)
  \/ \E r \in DOMAIN pc, err \in BOOLEAN : ReadFileCallback(r, err)
  \/ \E r \in DOMAIN pc : ConcAnswer(r)

SpecConc == InitConc /\ [][NextConc]_vars

\* ------------------------------------------------------------- C12
\* C12: with the metadata service unreachable /stop-job and /start-job are
\* answered 500; the process is serving whenever a request has been received,
\* whatever failed; and next to a failed request a request for / can still be
\* received and, its file read, is answered 200.
MetadataUnreachable(r) == IsControl(r) /\ Errored(got[r].project)
C12_FailureLeavesServing ==
  /\ \A r \in ConcReqs : MetadataUnreachable(r) => Sent(r, 500)
  /\ (\E r \in ConcReqs : Received(r)) => proc = "serving"
  /\ \A r, s \in ConcReqs :
       r # s /\ MetadataUnreachable(s) =>
         /\ pc[r] = "new" => ENABLED Receive(r, "GET", <<"/">>)
         /\ pc[r] = "readFile" => ENABLED (ReadFileCallback(r, FALSE) /\ Sent(r, 200)')
         /\ pc[r] = "done" /\ req[r].url = <<"/">> =>
              Sent(r, 200) \/ res[r].sentBody = <<"Error loading index.html">>
\* /start-job failed on an unreachable metadata service and / was served.
C12_Witness ==
  \E r, s \in ConcReqs :
    /\ r # s /\ IsStart(s) /\ MetadataUnreachable(s) /\ Sent(s, 500)
    /\ req[r].url = <<"/">> /\ Sent(r, 200)

\* ------------------------------------------------------------- C13
\* C13: every request whose identity resolution succeeded issues its own GET
\* to the metadata token path, and the bearer token of its scheduler call is
\* the access token its own fetch returned, whatever the other requests
\* fetched.
ReturnedToken(b) == b[4]
HasAccessToken(b) == Len(b) = 5 /\ b[1] = "{" /\ b[2] = "access_token"
C13_OwnFreshToken ==
  \A r \in ConcReqs :
    /\ IdentitySucceeded(r) =>
         /\ Len(CallsOfStage(r, 2)) = 1
         /\ CallsOfStage(r, 2)[1].method = "GET"
         /\ CallsOfStage(r, 2)[1].hostname = "metadata.google.internal"
         /\ Contains(CallsOfStage(r, 2)[1].path,
                     <<"instance", "/", "service-accounts", "/", "default", "/", "token">>)
    /\ CallsOfStage(r, 3) # <<>> /\ HasAccessToken(got[r].token.body) =>
         CallsOfStage(r, 3)[1].authorization
           = <<"Bearer ", ReturnedToken(got[r].token.body)>>
\* Two requests called the scheduler with the different tokens they fetched.
C13_Witness ==
  \E r, s \in ConcReqs :
    /\ r # s /\ CallsOfStage(r, 3) # <<>> /\ CallsOfStage(s, 3) # <<>>
    /\ HasAccessToken(got[r].token.body) /\ HasAccessToken(got[s].token.body)
    /\ ReturnedToken(got[r].token.body) # ReturnedToken(got[s].token.body)

\* ------------------------------------------------------------- C14
\* C14: under any interleaving, the projectId, location, token, action and
\* response of a control request are the ones its own answers determine:
\* each is written here as a function of the request and its own answers.
TokenRejected(r) == TokenFailed(r) \/ (Succeeded(got[r].token) /\ got[r].token.body = <<"null">>)
OwnStatus(r) ==
  IF IdentityFailed(r) \/ TokenRejected(r) \/ Errored(got[r].scheduler) THEN 500
  ELSE got[r].scheduler.statusCode
OwnOutcomeKnown(r) ==
  IdentityFailed(r) \/ TokenRejected(r) \/ got[r].scheduler.kind # "none"
OwnAction(r) == IF req[r].url[1] = "/stop-job" THEN ":pause" ELSE ":resume"
DeterminedByOwnAnswers(r) ==
  /\ projectId[r] =
       IF Succeeded(got[r].project) THEN Str(got[r].project.body) ELSE Undefined
  /\ location[r] =
       IF Succeeded(got[r].region) THEN Str(ExpectedLocation(r)) ELSE Undefined
  /\ authToken[r] =
       IF Succeeded(got[r].token) /\ HasAccessToken(got[r].token.body)
       THEN Str(<<ReturnedToken(got[r].token.body)>>) ELSE Undefined
  /\ \A i \in 1..Len(calls[r]) :
       StageOf(calls[r][i]) = 3 =>
         /\ calls[r][i].path[Len(calls[r][i].path)] = OwnAction(r)
         /\ Contains(calls[r][i].path,
                     <<"/v1/projects/">> \o projectId[r].s \o <<"/locations/">>
                       \o location[r].s \o <<"/jobs/">>)
  /\ res[r].finished <=> OwnOutcomeKnown(r)
  /\ res[r].finished =>
       /\ res[r].sentStatus = OwnStatus(r)
       /\ BadStatus(got[r].scheduler) => Contains(res[r].sentBody, got[r].scheduler.body)
       /\ Succeeded(got[r].scheduler) => SentSuccess(r)
C14_RequestsIsolated ==
  \A r \in ConcReqs : IsControl(r) => DeterminedByOwnAnswers(r)
\* A /start-job that succeeded next to a /stop-job the scheduler refused,
\* the /stop-job being the request received first.
C14_Witness ==
  \E r, s \in ConcReqs :
    /\ r < s /\ IsStop(r) /\ IsStart(s)
    /\ Sent(r, 403) /\ Sent(s, 200)

\* ------------------------------------------------------------- C15
\* The pairs of letters in which the wording of /stop-job and /start-job differs.
Wording ==
  {<<" paused successfully.</p>", " started successfully.</p>">>,
   <<"<p>Error: Failed to pause job. Details: ", "<p>Error: Failed to start job. Details: ">>,
   <<":pause", ":resume">>}
SameButWording(a, b) ==
  /\ Len(a) = Len(b)
  /\ \A i \in 1..Len(a) : a[i] = b[i] \/ <<a[i], b[i]>> \in Wording
SameCallButSuffix(c, d) ==
  /\ c.method = d.method /\ c.hostname = d.hostname
  /\ c.authorization = d.authorization /\ c.body = d.body
  /\ IF StageOf(c) = 3
     THEN /\ StageOf(d) = 3
          /\ SameButWording(c.path, d.path)
          /\ c.path[Len(c.path)] = ":pause" /\ d.path[Len(d.path)] = ":resume"
     ELSE c = d
\* C15: a /stop-job and a /start-job whose outbound calls got identical
\* answers made the same calls in the same order, but for the :pause /
\* :resume suffix, and sent the same status code, content type and body
\* but for the wording.
C15_StartMirrorsStop ==
  \A r, s \in ConcReqs :
    IsStop(r) /\ IsStart(s) /\ got[r] = got[s] =>
      /\ pc[r] = pc[s]
      /\ Len(calls[r]) = Len(calls[s])
      /\ \A i \in 1..Len(calls[r]) : SameCallButSuffix(calls[r][i], calls[s][i])
      /\ res[r].finished = res[s].finished
      /\ res[r].sentStatus = res[s].sentStatus
      /\ res[r].contentType = res[s].contentType
      /\ SameButWording(res[r].sentBody, res[s].sentBody)
\* Both were refused by the scheduler with the same answer.
C15_Witness ==
  \E r, s \in ConcReqs :
    /\ IsStop(r) /\ IsStart(s) /\ got[r] = got[s]
    /\ BadStatus(got[r].scheduler) /\ Sent(r, 403) /\ Sent(s, 403)

\* ------------------------------------------------------------- C16
\* C16: when REGION is set, a control request issues no instance/region
\* lookup, and so never answers out of that lookup's failure.
IssuedRegionLookup(r) == \E i \in 1..Len(calls[r]) : calls[r][i] = RegionLookup
C16_RegionLookupBypassed ==
  \A r \in Reqs :
    IsControl(r) /\ RegionSet =>
      /\ ~IssuedRegionLookup(r)
      /\ got[r].region.kind = "none"

\* ------------------------------------------------------------- C17
\* C17: identity resolution makes the project-id lookup and the region lookup,
\* neither request built from the other's result; a non-200 status or a
\* transport error on either one fails the resolution: the request is
\* answered 500, no location is returned and no later call is issued. Once
\* the token stage is reached both lookups succeeded and both projectId and
\* location are defined.
C17_IdentityAllOrNothing ==
  \A r \in Reqs :
    IsControl(r) =>
      /\ \A i \in 1..Len(CallsOfStage(r, 1)) :
           CallsOfStage(r, 1)[i] = <<ProjectLookup, RegionLookup>>[i]
      /\ Len(CallsOfStage(r, 1)) <= 2
      /\ IdentityFailed(r) =>
           /\ Sent(r, 500)
           /\ ~location[r].def
           /\ CallsOfStage(r, 2) = <<>> /\ CallsOfStage(r, 3) = <<>>
      /\ CallsOfStage(r, 2) # <<>> =>
           /\ IdentitySucceeded(r)
           /\ CallsOfStage(r, 1) = <<ProjectLookup, RegionLookup>>
           /\ projectId[r].def /\ location[r].def
\* The project lookup succeeded and the region lookup failed in transport.
C17_Witness ==
  \E r \in Reqs :
    /\ IsControl(r) /\ Succeeded(got[r].project) /\ Errored(got[r].region)
    /\ Sent(r, 500)

\* ------------------------------------------------------------- C18
\* The concurrent server where the outbound calls of every request but
\* request 1 are answered in the end; those of request 1 may hang for ever.
\* Requests are received in any order, so request 1 may be the first or a
\* later one.
Hung == 1
SpecOneHung ==
  InitConc /\ [][NextConc]_vars /\ \A r \in ConcReqs \ {Hung} : WF_vars(ConcAnswer(r))

\* C18: whatever request 1 is waiting on, and for however long, every other
\* control request received is answered.
C18_HungCallHoldsOnlyItsRequest ==
  \A r \in ConcReqs \ {Hung} : IsControl(r) ~> res[r].finished
\* Request 1 is waiting on its first outbound call, and a control request
\* received next to it has been answered out of the scheduler's answer.
C18_Witness ==
  \E r \in ConcReqs \ {Hung} :
    /\ pc[Hung] = "project" /\ ~res[Hung].finished
    /\ IsControl(r) /\ got[r].scheduler.kind = "response" /\ res[r].finished

\* ------------------------------------------------------------- C19
\* C19: res.end is called at most once for a request, by one of the 'end'
\* callback, the 'error' callback and the catch block: when the catch block
\* answered no scheduler request exists whose callbacks could fire, and when
\* a callback answered the handler has no step left. The status code sent is
\* the status code the response holds ever after.
AnsweredByCatch(r) == IdentityFailed(r) \/ TokenRejected(r)
AnsweredByCallback(r) == got[r].scheduler.kind # "none"
C19_AnsweredAtMostOnce ==
  \A r \in Reqs :
    /\ res[r].ends <= 1
    /\ res[r].finished <=> res[r].ends = 1
    /\ res[r].finished =>
         /\ pc[r] = "done"
         /\ res[r].statusCode = res[r].sentStatus
    /\ IsControl(r) =>
         /\ ~(AnsweredByCatch(r) /\ AnsweredByCallback(r))
         /\ AnsweredByCatch(r) => CallsOfStage(r, 3) = <<>>
         /\ ~(Errored(got[r].scheduler) /\ got[r].scheduler.kind = "response")
\* The catch block answered after the token could not be parsed.
C19_Witness ==
  \E r \in Reqs :
    /\ IsControl(r) /\ Succeeded(got[r].token) /\ TokenRejected(r)
    /\ res[r].ends = 1 /\ Sent(r, 500)

\* ------------------------------------------------------------- C20
\* A pending outbound call of request r raises a transport error.
TransportFails(r) ==
  \/ \E e \in TransportErrors : ProjectError(r, e)
  \/ \E e \in TransportErrors : RegionError(r, e)
  \/ \E e \in TransportErrors : TokenError(r, e)
  \/ \E e \in TransportErrors : SchedulerError(r, e)
\* The server under the assumption that every outbound call is answered in
\* the end. TransportFails(r) is enabled exactly while a call of r is
\* pending, so weak fairness on it excludes the behaviours in which a call
\* stays pending for ever and no others: which answer a call gets, a
\* response or an error, stays free.
SpecFair == Init /\ [][Next]_vars /\ \A r \in Reqs : WF_vars(TransportFails(r))

\* C20: every outbound call being answered in the end, every POST /stop-job
\* and POST /start-job received is answered, with one call of res.end, and
\* the status sent is 200 or the upstream status after a scheduler response
\* and 500 otherwise.
C20_ControlRequestAnswered ==
  \A r \in Reqs :
    IsControl(r) ~>
      /\ res[r].finished /\ res[r].ends = 1
      /\ res[r].sentStatus =
           IF got[r].scheduler.kind = "response" THEN got[r].scheduler.statusCode
           ELSE 500
\* A request answered after all four outbound calls, the last one refused.
C20_Witness ==
  \E r \in Reqs :
    /\ IsStart(r) /\ Len(calls[r]) = 4 /\ BadStatus(got[r].scheduler)
    /\ res[r].finished /\ res[r].ends = 1

====
